---- MODULE Spec2Model ----
(***************************************************************************)
(* Lifecycle supervisor of the Khoj desktop shell (src/main.py).           *)
(*                                                                         *)
(* Two execution contexts: the foreground context that runs run() and the  *)
(* Qt event loop (gui.exec), and the background ServerThread that hosts    *)
(* the network listener.  The user (tray menu, configure window) and the   *)
(* configuration on disk are the environment.                              *)
(***************************************************************************)
EXTENDS Naturals, Sequences, FiniteSets

VARIABLES
    pc,            \* position of the foreground context inside run()
    config,        \* environment: what cli(sys.argv[1:]) would yield right now
    args,          \* run(): the local `args` (result of the latest cli call)
    queryLog,      \* history: results of the cli calls, in order
    bind,          \* run(): the locals host, port, socket
    windowVisible, \* ConfigureWindow is shown
    gateShows,     \* history: number of window.show() calls made by run() (line 38)
    quitNow,       \* gui.quit() was called, the running gui.exec() is about to return
    quitLog,       \* history: lifecycle state at each dispatch of the Quit action
    hooks,         \* slots connected to gui.aboutToQuit
    threads,       \* the ServerThread objects constructed so far
    startCalls,    \* history: number of calls of ServerThread.start
    stopLog,       \* history: thread record seen by each call of server.terminate
    opened,        \* history: number of webbrowser.open calls
    edits,         \* history: number of changes of the configuration on disk
    exitStatus,    \* process exit status: <<>> while the process is alive
    shown          \* history: diagnostics the foreground context has printed

vars == <<pc, config, args, queryLog, bind, windowVisible, gateShows, quitNow,
          quitLog, hooks, threads, startCalls, stopLog, opened, edits, exitStatus,
          shown>>

-----------------------------------------------------------------------------
(* Bounds of the model *)

MaxSearch == 1
MaxEdits == 2

-----------------------------------------------------------------------------
(* Values *)

None == "None"
\* exitStatus while the process has not exited; <<n>> once it exited with n
Alive == <<>>

Hosts == {"127.0.0.1"}
Ports == {"8000", "8001"}
SocketPaths == {"/tmp/khoj.sock"}

NoConfig == [kind |-> "none"]
TcpConfigs == {[kind |-> "tcp", host |-> h, port |-> p] : h \in Hosts, p \in Ports}
UdsConfigs == {[kind |-> "uds", socket |-> s] : s \in SocketPaths}
PresentConfigs == TcpConfigs \cup UdsConfigs
Configs == {NoConfig} \cup PresentConfigs

\* line 45: the diagnostic printed before sys.exit(1)
NotConfigured == "Exiting as Khoj is not configured"

NoBind == [host |-> None, port |-> None, socket |-> None]

\* src.configure.configure_server: args -> (host, port, socket)
configure_server(a) ==
    CASE a.kind = "tcp" -> [host |-> a.host, port |-> a.port, socket |-> None]
      [] a.kind = "uds" -> [host |-> None, port |-> None, socket |-> a.socket]
      [] OTHER -> NoBind

\* ServerThread.__init__
ServerThread(host, port, socket) ==
    [host |-> host, port |-> port, socket |-> socket,
     st |-> "created", term |-> FALSE, bindFailed |-> FALSE]

\* ServerThread.run: what the listener is asked to bind
BindTarget(t) ==
    IF t.socket # None
    THEN [kind |-> "uds", path |-> t.socket]
    ELSE [kind |-> "tcp", host |-> t.host, port |-> t.port]

\* the execution unit of thread t is running
IsRunning(t) == t.st \in {"binding", "serving"}

\* mutant of Terminate: stopping a unit that is not running is an error
Terminate_Strict(t) ==
    IF IsRunning(t) /\ ~t.term
    THEN [t EXCEPT !.term = TRUE]
    ELSE [t EXCEPT !.st = "error"]

\* QThread.terminate as called through server.terminate: a request, not a wait
Terminate(t) ==
    IF IsRunning(t) THEN [t EXCEPT !.term = TRUE] ELSE t

LiveThreads == {i \in DOMAIN threads : IsRunning(threads[i])}

\* the lifecycle state of the spec (section 3), read off the position in run()
LifecycleState ==
    CASE pc = "cli1" -> "Unconfigured"
      [] pc = "exec1" -> "AwaitingFirstRun"
      [] pc = "cli2" -> IF args = NoConfig THEN "AwaitingFirstRun" ELSE "Configured"
      [] pc \in {"configure", "construct", "start"} -> "Configured"
      [] pc = "connect" -> "Running"
      [] pc = "exec2" -> IF quitNow THEN "ShuttingDown" ELSE "Running"
      [] pc = "del" -> "ShuttingDown"
      [] OTHER -> "Terminated"

-----------------------------------------------------------------------------
(* Initial state: run() has set up gui, window and tray (lines 27-31) *)

Init ==
    /\ pc = "cli1"
    /\ config \in Configs
    /\ args = NoConfig
    /\ queryLog = <<>>
    /\ bind = NoBind
    /\ windowVisible = FALSE
    /\ gateShows = 0
    /\ quitNow = FALSE
    /\ quitLog = <<>>
    /\ hooks = {}
    /\ threads = <<>>
    /\ startCalls = 0
    /\ stopLog = <<>>
    /\ opened = 0
    /\ edits = 0
    /\ exitStatus = Alive
    /\ shown = <<>>

-----------------------------------------------------------------------------
(* Foreground context: run() *)

\* lines 33-39: first cli call, then the first-run branch up to gui.exec()
FirstCheck ==
    /\ pc = "cli1"
    /\ args' = config
    /\ queryLog' = Append(queryLog, config)
    /\ IF config = NoConfig
       THEN /\ windowVisible' = TRUE
            /\ gateShows' = gateShows + 1
            /\ pc' = "exec1"
       ELSE /\ pc' = "cli2"
            /\ UNCHANGED <<windowVisible, gateShows>>
    /\ UNCHANGED <<config, bind, quitNow, quitLog, hooks, threads, startCalls,
                   stopLog, opened, edits, exitStatus,
                   shown>>

\* gui.exec() returns: aboutToQuit is emitted to the connected slots first
EmitAboutToQuit ==
    /\ threads' = [i \in DOMAIN threads |->
                      IF i \in hooks THEN Terminate(threads[i]) ELSE threads[i]]
    /\ stopLog' = IF hooks = {} THEN stopLog
                  ELSE Append(stopLog, threads[CHOOSE i \in hooks : TRUE])

\* mutant of ExecReturn1: the process ends when the first-run gui.exec() returns
ExecReturn1_Exits ==
    /\ pc = "exec1"
    /\ quitNow
    /\ EmitAboutToQuit
    /\ quitNow' = FALSE
    /\ pc' = "exited"
    /\ exitStatus' = <<0>>
    /\ UNCHANGED <<config, args, queryLog, bind, windowVisible, gateShows,
                   quitLog, hooks, startCalls, opened, edits, shown>>

\* line 39: the first-run gui.exec() returns
ExecReturn1 ==
    /\ pc = "exec1"
    /\ quitNow
    /\ EmitAboutToQuit
    /\ quitNow' = FALSE
    /\ pc' = "cli2"
    /\ UNCHANGED <<config, args, queryLog, bind, windowVisible, gateShows,
                   quitLog, hooks, startCalls, opened, edits, exitStatus,
                   shown>>

\* mutant of ReloadConfig: the not-configured exit is missing
ReloadConfig_NoExit ==
    /\ pc = "cli2"
    /\ args' = config
    /\ queryLog' = Append(queryLog, config)
    /\ pc' = "configure"
    /\ UNCHANGED <<config, bind, windowVisible, gateShows, quitNow, quitLog,
                   hooks, threads, startCalls, stopLog, opened, edits,
                   exitStatus,
                   shown>>

\* mutant of ReloadConfig: the exit test reads args before the reload
ReloadConfig_StaleTest ==
    /\ pc = "cli2"
    /\ args' = config
    /\ queryLog' = Append(queryLog, config)
    /\ IF args = NoConfig
       THEN /\ shown' = Append(shown, NotConfigured)
            /\ pc' = "exited"
            /\ exitStatus' = <<1>>
       ELSE /\ pc' = "configure"
            /\ UNCHANGED <<exitStatus, shown>>
    /\ UNCHANGED <<config, bind, windowVisible, gateShows, quitNow, quitLog,
                   hooks, threads, startCalls, stopLog, opened, edits>>

\* mutant of ReloadConfig: the reload is skipped when args is already present
ReloadConfig_SkipWhenPresent ==
    /\ pc = "cli2"
    /\ IF args # NoConfig
       THEN /\ pc' = "configure"
            /\ UNCHANGED <<args, queryLog, exitStatus, shown>>
       ELSE /\ args' = config
            /\ queryLog' = Append(queryLog, config)
            /\ IF config = NoConfig
               THEN /\ shown' = Append(shown, NotConfigured)
                    /\ pc' = "exited"
                    /\ exitStatus' = <<1>>
               ELSE /\ pc' = "configure"
                    /\ UNCHANGED <<exitStatus, shown>>
    /\ UNCHANGED <<config, bind, windowVisible, gateShows, quitNow, quitLog,
                   hooks, threads, startCalls, stopLog, opened, edits>>

\* lines 41-46: reload the configuration, exit if still not configured
ReloadConfig ==
    /\ pc = "cli2"
    /\ args' = config
    /\ queryLog' = Append(queryLog, config)
    /\ IF config = NoConfig
       THEN /\ shown' = Append(shown, NotConfigured)
            /\ pc' = "exited"
            /\ exitStatus' = <<1>>
       ELSE /\ pc' = "configure"
            /\ UNCHANGED <<exitStatus, shown>>
    /\ UNCHANGED <<config, bind, windowVisible, gateShows, quitNow, quitLog,
                   hooks, threads, startCalls, stopLog, opened, edits>>

\* mutant of ConfigureServer: the target is derived from the first cli result
ConfigureServer_FirstQuery ==
    /\ pc = "configure"
    /\ bind' = configure_server(queryLog[1])
    /\ pc' = "construct"
    /\ UNCHANGED <<config, args, queryLog, windowVisible, gateShows, quitNow,
                   quitLog, hooks, threads, startCalls, stopLog, opened, edits,
                   exitStatus,
                   shown>>

\* line 49: host, port, socket = configure_server(args)
ConfigureServer ==
    /\ pc = "configure"
    /\ bind' = configure_server(args)
    /\ pc' = "construct"
    /\ UNCHANGED <<config, args, queryLog, windowVisible, gateShows, quitNow,
                   quitLog, hooks, threads, startCalls, stopLog, opened, edits,
                   exitStatus,
                   shown>>

\* line 52: server = ServerThread(app, host, port, socket)
ConstructServer ==
    /\ pc = "construct"
    /\ threads' = Append(threads, ServerThread(bind.host, bind.port, bind.socket))
    /\ pc' = "start"
    /\ UNCHANGED <<config, args, queryLog, bind, windowVisible, gateShows,
                   quitNow, quitLog, hooks, startCalls, stopLog, opened, edits,
                   exitStatus,
                   shown>>

\* mutant of ServerStart: server.run() is called, the listener runs in the
\* foreground context and run() does not get past this line
ServerStart_RunInline ==
    /\ pc = "start"
    /\ threads' = [threads EXCEPT ![Len(threads)].st = "binding"]
    /\ startCalls' = startCalls + 1
    /\ pc' = "inline"
    /\ UNCHANGED <<config, args, queryLog, bind, windowVisible, gateShows,
                   quitNow, quitLog, hooks, stopLog, opened, edits, exitStatus,
                   shown>>

\* line 53: server.start()
ServerStart ==
    /\ pc = "start"
    /\ threads' = [threads EXCEPT ![Len(threads)].st = "binding"]
    /\ startCalls' = startCalls + 1
    /\ pc' = "connect"
    /\ UNCHANGED <<config, args, queryLog, bind, windowVisible, gateShows,
                   quitNow, quitLog, hooks, stopLog, opened, edits, exitStatus,
                   shown>>

\* mutant of ConnectHook: server.terminate is not connected to aboutToQuit
ConnectHook_Missing ==
    /\ pc = "connect"
    /\ pc' = "exec2"
    /\ UNCHANGED <<config, args, queryLog, bind, windowVisible, gateShows,
                   quitNow, quitLog, hooks, threads, startCalls, stopLog,
                   opened, edits, exitStatus,
                   shown>>

\* lines 54-57: gui.aboutToQuit.connect(server.terminate), then gui.exec()
ConnectHook ==
    /\ pc = "connect"
    /\ hooks' = hooks \cup {Len(threads)}
    /\ pc' = "exec2"
    /\ UNCHANGED <<config, args, queryLog, bind, windowVisible, gateShows,
                   quitNow, quitLog, threads, startCalls, stopLog, opened,
                   edits, exitStatus,
                   shown>>

\* mutant of ExecReturn2: run() enters gui.exec() again when it returns
ExecReturn2_Reenter ==
    /\ pc = "exec2"
    /\ quitNow
    /\ EmitAboutToQuit
    /\ quitNow' = FALSE
    /\ pc' = "exec2"
    /\ UNCHANGED <<config, args, queryLog, bind, windowVisible, gateShows,
                   quitLog, hooks, startCalls, opened, edits, exitStatus,
                   shown>>

\* line 57: the main gui.exec() returns, and with it run()
ExecReturn2 ==
    /\ pc = "exec2"
    /\ quitNow
    /\ EmitAboutToQuit
    /\ quitNow' = FALSE
    /\ pc' = "del"
    /\ UNCHANGED <<config, args, queryLog, bind, windowVisible, gateShows,
                   quitLog, hooks, startCalls, opened, edits, exitStatus,
                   shown>>

\* lines 68-69: ServerThread.__del__ waits for the thread, then the process ends
ServerDel ==
    /\ pc = "del"
    /\ LiveThreads = {}
    /\ pc' = "exited"
    /\ exitStatus' = <<0>>
    /\ UNCHANGED <<config, args, queryLog, bind, windowVisible, gateShows,
                   quitNow, quitLog, hooks, threads, startCalls, stopLog,
                   opened, edits,
                   shown>>

-----------------------------------------------------------------------------
(* Events dispatched by a running gui.exec() *)

\* mutant of InEventLoop: events are also dispatched right after server.start()
InEventLoop_AfterStart == pc \in {"exec1", "connect", "exec2"} /\ ~quitNow

\* a gui.exec() is running and has not been told to quit
InEventLoop == pc \in {"exec1", "exec2"} /\ ~quitNow

\* line 143: the Search action
TraySearch ==
    /\ InEventLoop
    /\ opened < MaxSearch
    /\ opened' = opened + 1
    /\ UNCHANGED <<pc, config, args, queryLog, bind, windowVisible, gateShows,
                   quitNow, quitLog, hooks, threads, startCalls, stopLog, edits,
                   exitStatus,
                   shown>>

\* mutant of TrayConfigure: reconfiguring also starts a server on the target
TrayConfigure_Restarts ==
    /\ InEventLoop
    /\ windowVisible' = TRUE
    /\ IF pc = "exec2"
       THEN /\ threads' = Append(threads,
                [ServerThread(bind.host, bind.port, bind.socket)
                    EXCEPT !.st = "binding"])
            /\ startCalls' = startCalls + 1
       ELSE UNCHANGED <<threads, startCalls>>
    /\ UNCHANGED <<pc, config, args, queryLog, bind, gateShows, quitNow,
                   quitLog, hooks, stopLog, opened, edits, exitStatus,
                   shown>>

\* mutant of TrayConfigure: the action toggles the window
TrayConfigure_Toggle ==
    /\ InEventLoop
    /\ windowVisible' = ~windowVisible
    /\ UNCHANGED <<pc, config, args, queryLog, bind, gateShows, quitNow,
                   quitLog, hooks, threads, startCalls, stopLog, opened, edits,
                   exitStatus, shown>>

\* line 144: the Configure action, window.show
TrayConfigure ==
    /\ InEventLoop
    /\ windowVisible' = TRUE
    /\ UNCHANGED <<pc, config, args, queryLog, bind, gateShows, quitNow,
                   quitLog, hooks, threads, startCalls, stopLog, opened, edits,
                   exitStatus,
                   shown>>

\* mutant of TrayQuit: the Quit action ends the process itself
TrayQuit_SysExit ==
    /\ InEventLoop
    /\ quitLog' = Append(quitLog, LifecycleState)
    /\ pc' = "exited"
    /\ exitStatus' = <<0>>
    /\ UNCHANGED <<config, args, queryLog, bind, windowVisible, gateShows,
                   quitNow, hooks, threads, startCalls, stopLog, opened, edits,
                   shown>>

\* line 145: the Quit action, gui.quit
TrayQuit ==
    /\ InEventLoop
    /\ quitNow' = TRUE
    /\ quitLog' = Append(quitLog, LifecycleState)
    /\ UNCHANGED <<pc, config, args, queryLog, bind, windowVisible, gateShows,
                   hooks, threads, startCalls, stopLog, opened, edits,
                   exitStatus,
                   shown>>

\* mutant of WindowClose: closing the last window quits the application
WindowClose_Quits ==
    /\ InEventLoop
    /\ windowVisible
    /\ windowVisible' = FALSE
    /\ quitNow' = TRUE
    /\ UNCHANGED <<pc, config, args, queryLog, bind, gateShows, quitLog,
                   hooks, threads, startCalls, stopLog, opened, edits,
                   exitStatus, shown>>

\* the user closes the configure window; line 28: the application keeps running
WindowClose ==
    /\ InEventLoop
    /\ windowVisible
    /\ windowVisible' = FALSE
    /\ UNCHANGED <<pc, config, args, queryLog, bind, gateShows, quitNow,
                   quitLog, hooks, threads, startCalls, stopLog, opened, edits,
                   exitStatus,
                   shown>>

-----------------------------------------------------------------------------
(* Environment: the configuration that cli reads is created, edited, removed *)

ConfigEdit ==
    /\ exitStatus = Alive
    /\ edits < MaxEdits
    /\ \E c \in Configs \ {config} : config' = c
    /\ edits' = edits + 1
    /\ UNCHANGED <<pc, args, queryLog, bind, windowVisible, gateShows, quitNow,
                   quitLog, hooks, threads, startCalls, stopLog, opened,
                   exitStatus,
                   shown>>

-----------------------------------------------------------------------------
(* Background context: ServerThread.run, lines 71-75 *)

\* uvicorn.run has bound the target and serves
ThreadServe(i) ==
    /\ threads[i].st = "binding"
    /\ threads' = [threads EXCEPT ![i].st = "serving"]
    /\ UNCHANGED <<pc, config, args, queryLog, bind, windowVisible, gateShows,
                   quitNow, quitLog, hooks, startCalls, stopLog, opened, edits,
                   exitStatus,
                   shown>>

\* uvicorn.run could not bind the target: run() of the thread ends
ThreadBindFail(i) ==
    /\ threads[i].st = "binding"
    /\ threads' = [threads EXCEPT ![i].st = "finished", ![i].bindFailed = TRUE]
    /\ UNCHANGED <<pc, config, args, queryLog, bind, windowVisible, gateShows,
                   quitNow, quitLog, hooks, startCalls, stopLog, opened, edits,
                   exitStatus,
                   shown>>

\* the thread ends some time after terminate was requested
ThreadTerminated(i) ==
    /\ IsRunning(threads[i])
    /\ threads[i].term
    /\ threads' = [threads EXCEPT ![i].st = "finished"]
    /\ UNCHANGED <<pc, config, args, queryLog, bind, windowVisible, gateShows,
                   quitNow, quitLog, hooks, startCalls, stopLog, opened, edits,
                   exitStatus,
                   shown>>

-----------------------------------------------------------------------------

Next ==
    \/ FirstCheck
    \/ ExecReturn1
    \/ ReloadConfig
    \/ ConfigureServer
    \/ ConstructServer
    \/ ServerStart
    \/ ConnectHook
    \/ ExecReturn2
    \/ ServerDel
    \/ TraySearch
    \/ TrayConfigure
    \/ TrayQuit
    \/ WindowClose
    \/ ConfigEdit
    \/ \E i \in DOMAIN threads : ThreadServe(i)
    \/ \E i \in DOMAIN threads : ThreadBindFail(i)
    \/ \E i \in DOMAIN threads : ThreadTerminated(i)

Spec == Init /\ [][Next]_vars

TypeOK ==
    /\ pc \in {"cli1", "exec1", "cli2", "configure", "construct", "start",
               "connect", "exec2", "del", "exited"}
    /\ config \in Configs
    /\ args \in Configs
    /\ windowVisible \in BOOLEAN
    /\ quitNow \in BOOLEAN
    /\ hooks \subseteq DOMAIN threads
    /\ exitStatus \in {Alive, <<0>>, <<1>>}

-----------------------------------------------------------------------------
(* Properties *)

\* the BindTarget of a configuration (spec section 3): TcpBind or UnixSocketBind
TargetOf(c) ==
    IF c.kind = "uds"
    THEN [kind |-> "uds", path |-> c.socket]
    ELSE [kind |-> "tcp", host |-> c.host, port |-> c.port]

\* run() is past server.start()
Started == pc \in {"connect", "exec2", "del"} \/ (pc = "exited" /\ exitStatus = <<0>>)

LastQuery == queryLog[Len(queryLog)]

\* C1: when the configuration is absent at launch and at the re-check, the
\* process has exited with a non-zero status and ServerThread.start was not
\* called.
C1_TwiceAbsentExitsNonZero ==
    (Len(queryLog) >= 2 /\ queryLog[1] = NoConfig /\ queryLog[2] = NoConfig)
        => /\ pc = "exited"
           /\ exitStatus # Alive
           /\ exitStatus # <<0>>
           /\ startCalls = 0
           /\ threads = <<>>

C1_Witness ==
    /\ queryLog = <<NoConfig, NoConfig>>
    /\ quitLog = <<"AwaitingFirstRun">>
    /\ exitStatus = <<1>>

\* C2: when the first configuration check yields cfg, a run that got past the
\* configuration checks has called start exactly once, on the BindTarget
\* derived from that cfg, whatever the later query returned.
C2_FirstConfigDecidesStart ==
    (queryLog # <<>> /\ queryLog[1] # NoConfig /\ Len(queryLog) >= 2
        /\ pc \in {"exec2", "del", "exited"})
        => /\ startCalls = 1
           /\ Len(threads) = 1
           /\ BindTarget(threads[1]) = TargetOf(queryLog[1])

\* C3: once Quit was dispatched and run() is leaving (or the process has
\* exited), either no service was ever started, or terminate was invoked on
\* the started service before that.
C3_QuitStopsBeforeExit ==
    (quitLog # <<>> /\ pc \in {"del", "exited"})
        => \/ startCalls = 0 /\ threads = <<>>
           \/ /\ Len(stopLog) >= 1
              /\ threads[1].st = "finished" \/ threads[1].term

C3_Witness ==
    /\ pc = "del"
    /\ quitLog = <<"AwaitingFirstRun", "Running">>
    /\ Len(stopLog) = 1
    /\ IsRunning(stopLog[1])

\* C4: closing the setup surface during the first-run wait ends the wait,
\* that is, it makes the first-run gui.exec() return.
C4_CloseEndsFirstRunWait ==
    [][(pc = "exec1" /\ ~quitNow /\ windowVisible /\ ~windowVisible')
          => (quitNow' \/ pc' # "exec1")]_vars

\* C5: when terminate is invoked on a running service, the background unit
\* has exited by the time the call returns.
C5_StopReturnsAfterUnitExited ==
    [][(Len(stopLog') > Len(stopLog) /\ IsRunning(stopLog'[Len(stopLog')]))
          => LiveThreads' = {}]_vars

C7_StartOnlyWhenConfigured ==
    [][startCalls' > startCalls
          => /\ queryLog # <<>>
             /\ LastQuery # NoConfig
             /\ args = LastQuery
             /\ \A i \in DOMAIN threads' :
                   IsRunning(threads'[i]) => BindTarget(threads'[i]) = TargetOf(LastQuery)]_vars

C7_Witness ==
    /\ pc = "connect"
    /\ startCalls = 1
    /\ Len(queryLog) = 2
    /\ queryLog[1] = NoConfig

\* C8: when the launch check is absent and the re-check yields a
\* configuration, the gate has shown the setup surface once, has queried the
\* configuration twice in all, does not exit non-zero, and once past
\* server.start() has started exactly one service, on the BindTarget of the
\* re-checked configuration.
C8_FirstRunThenConfigured ==
    (Len(queryLog) >= 2 /\ queryLog[1] = NoConfig /\ queryLog[2] # NoConfig)
        => /\ Len(queryLog) = 2
           /\ gateShows = 1
           /\ exitStatus # <<1>>
           /\ startCalls <= 1
           /\ Started => /\ startCalls = 1
                         /\ Len(threads) = 1
                         /\ BindTarget(threads[1]) = TargetOf(queryLog[2])

C8_Witness ==
    /\ Len(queryLog) = 2
    /\ queryLog[1] = NoConfig
    /\ queryLog[2] \in TcpConfigs
    /\ pc = "exited"
    /\ exitStatus = <<0>>
    /\ startCalls = 1

\* C9: a Quit dispatched while Running moves the state to ShuttingDown, the
\* state leaves Running only to ShuttingDown and ShuttingDown only to
\* Terminated, and on reaching Terminated that way terminate was invoked
\* exactly once and the exit status is 0.
C9_QuitWhileRunning ==
    [][/\ (LifecycleState = "Running" /\ Len(quitLog') > Len(quitLog))
            => LifecycleState' = "ShuttingDown"
       /\ LifecycleState = "Running"
            => LifecycleState' \in {"Running", "ShuttingDown"}
       /\ LifecycleState = "ShuttingDown"
            => LifecycleState' \in {"ShuttingDown", "Terminated"}
       /\ (LifecycleState = "ShuttingDown" /\ LifecycleState' = "Terminated")
            => Len(stopLog') = 1 /\ exitStatus' = <<0>>
       /\ (pc' = "exited" /\ quitLog' # <<>>
              /\ quitLog'[Len(quitLog')] = "Running")
            => Len(stopLog') = 1 /\ exitStatus' = <<0>>]_vars

C9_Witness ==
    /\ pc = "exited"
    /\ quitLog = <<"Running">>
    /\ Len(stopLog) = 1
    /\ exitStatus = <<0>>

\* C10: in every reachable state at most one background service unit is live.
C10_AtMostOneLiveService ==
    /\ Cardinality(LiveThreads) <= 1
    /\ Len(threads) <= 1

C10_Witness ==
    /\ pc = "exec2"
    /\ Cardinality(LiveThreads) = 1
    /\ opened >= 1
    /\ windowVisible
    /\ Len(quitLog) = 1
\* C11: the lifecycle state enters Running only from Configured, and from
\* Terminated no step changes the state, the threads or the start count.
C11_RunningOnlyFromConfigured ==
    [][/\ (LifecycleState' = "Running" /\ LifecycleState # "Running")
            => LifecycleState = "Configured"
       /\ LifecycleState = "Terminated"
            => /\ LifecycleState' = "Terminated"
               /\ startCalls' = startCalls
               /\ threads' = threads
               /\ exitStatus' = exitStatus]_vars

C11_Witness ==
    /\ LifecycleState = "Terminated"
    /\ exitStatus = <<0>>
    /\ startCalls = 1
    /\ quitLog = <<"AwaitingFirstRun", "Running">>

C13_BindFailureReported ==
    (pc = "exited" /\ \E i \in DOMAIN threads : threads[i].bindFailed)
        => /\ \E k \in DOMAIN shown : shown[k] # NotConfigured
           /\ startCalls = 1
\* C14: after Quit in Running the shutdown path never waits on the
\* background unit: when run() has returned, the process can end whatever the
\* state of the unit.
C14_ShutdownNeverWaitsOnUnit ==
    pc = "del" => ENABLED ServerDel

\* C15: server.start() returns with the unit merely launched, the foreground
\* context then goes on to its main gui.exec() and dispatches tray actions
\* there, whatever the unit is doing (binding, failed to bind, serving).
C15_StartDoesNotBlockForeground ==
    /\ (startCalls >= 1 /\ pc \notin {"exec2", "del", "exited"})
          => (pc = "connect" /\ ENABLED ConnectHook)
    /\ (pc = "exec2" /\ ~quitNow)
          => /\ ENABLED TrayQuit
             /\ ENABLED TrayConfigure
             /\ opened < MaxSearch => ENABLED TraySearch

C15_Witness ==
    /\ pc = "exec2"
    /\ quitNow
    /\ quitLog = <<"Running">>
    /\ \E i \in DOMAIN threads : threads[i].st = "binding"

\* C16: whenever a thread has been started and the event loop can dispatch
\* Quit, server.terminate of that thread is connected to aboutToQuit; between
\* server.start() and the connect no Quit is dispatched.
C16_HookConnectedBeforeQuit ==
    /\ (startCalls >= 1 /\ ENABLED TrayQuit) => Len(threads) \in hooks
    /\ pc = "connect" => ~ENABLED TrayQuit

C16_Witness ==
    /\ startCalls = 1
    /\ ENABLED TrayQuit
    /\ hooks = {1}
    /\ threads[1].st = "serving"
\* C17: a Quit dispatched during the first-run wait only makes the first-run
\* gui.exec() return to the reload of the configuration; the process does
\* not exit by it.  With the configuration then present run() goes on to
\* start the service and the process exits only after a second Quit; with
\* the configuration absent the process exits with status 1.
C17_FirstRunQuitOnlyEndsWait ==
    [][/\ (pc = "exec1" /\ pc' # "exec1")
            => /\ quitLog = <<"AwaitingFirstRun">>
               /\ pc' = "cli2"
               /\ exitStatus' = Alive
               /\ Len(queryLog') = 1
       /\ (pc = "cli2" /\ quitLog = <<"AwaitingFirstRun">> /\ pc' # "cli2")
            => /\ Len(queryLog') = 2
               /\ IF queryLog'[2] = NoConfig
                  THEN pc' = "exited" /\ exitStatus' = <<1>>
                  ELSE pc' = "configure" /\ exitStatus' = Alive
       /\ (pc' = "exited" /\ quitLog' # <<>>
              /\ quitLog'[1] = "AwaitingFirstRun" /\ exitStatus' # <<1>>)
            => /\ quitLog' = <<"AwaitingFirstRun", "Running">>
               /\ startCalls' = 1
               /\ exitStatus' = <<0>>]_vars

C17_Witness ==
    /\ pc = "exec2"
    /\ ~quitNow
    /\ quitLog = <<"AwaitingFirstRun">>
    /\ startCalls = 1
    /\ exitStatus = Alive

\* C18: a run past the reload has queried the configuration exactly twice;
\* it exits with status 1 without a start exactly when the second query is
\* absent, and goes on to start the service exactly when it is present,
\* whatever the first query returned.
C18_SecondQueryDecides ==
    /\ Len(queryLog) <= 2
    /\ pc \notin {"cli1", "exec1", "cli2"} => Len(queryLog) = 2
    /\ Len(queryLog) = 2
          => /\ queryLog[2] = NoConfig
                  <=> (pc = "exited" /\ exitStatus = <<1>>)
             /\ queryLog[2] = NoConfig => startCalls = 0 /\ threads = <<>>
             /\ queryLog[2] # NoConfig
                  => /\ pc \in {"configure", "construct", "start", "connect",
                                "exec2", "del", "exited"}
                     /\ Started <=> startCalls = 1
                     /\ Started => BindTarget(threads[1]) = TargetOf(queryLog[2])
    /\ startCalls >= 1 => (Len(queryLog) = 2 /\ queryLog[2] # NoConfig)

C18_Witness ==
    /\ Len(queryLog) = 2
    /\ queryLog[1] # NoConfig
    /\ queryLog[2] = NoConfig
    /\ exitStatus = <<1>>
    /\ startCalls = 0

\* C19: a step that closes the setup window leaves the position of run(),
\* the pending quit, the service and the exit status as they are; a running
\* gui.exec() is told to quit only by the Quit action, and the process exits
\* only from the not-configured test or after run() has returned.
C19_CloseNeverQuits ==
    [][/\ (windowVisible /\ ~windowVisible')
            => /\ pc' = pc
               /\ quitNow' = quitNow
               /\ exitStatus' = exitStatus
               /\ threads' = threads
               /\ stopLog' = stopLog
       /\ (~quitNow /\ quitNow') => quitLog' = Append(quitLog, LifecycleState)
       /\ (exitStatus = Alive /\ exitStatus' # Alive) => pc \in {"cli2", "del"}]_vars

C19_Witness ==
    /\ pc = "exec2"
    /\ gateShows = 1
    /\ ~windowVisible
    /\ ~quitNow
    /\ Cardinality(LiveThreads) = 1
    /\ stopLog = <<>>

====
